---- MODULE Spec2Model ----
(***************************************************************************)
(* Model of ladder_score/ladder.py: the batch script that reads players,   *)
(* maps and per-map records from the database, scores every record, folds  *)
(* the scores into per-map and per-player totals and writes two reports.   *)
(*                                                                         *)
(* Numbers.  Python floats are modelled as follows:                        *)
(*   - times in seconds (record_time_sec, min/max/average/median) are      *)
(*     exact rationals <<num, den>> in lowest terms;                       *)
(*   - math.log10 is a fixed-point base-10 logarithm (digit-by-digit       *)
(*     algorithm) returning multiples of 1/LogScale, with Log10 of 1       *)
(*     exactly 0;                                                          *)
(*   - a score is a float of FloatBits significant bits in units of        *)
(*     1/LogScale^2: every product and every sum of scores is rounded to   *)
(*     the nearest such float (ties to even), as IEEE arithmetic rounds    *)
(*     to 53 bits.                                                         *)
(* Python exceptions end the run: pc becomes "failed" and error holds the  *)
(* exception's name.                                                       *)
(***************************************************************************)
EXTENDS Integers, Sequences, FiniteSets, TLC

\* ---------------------------------------------------------------- bounds
\* Total number of rows of the records table, over all maps.
MaxRecords == 3

\* The ids of the rows of the maps table, in the order the query returns
\* them: the id of a map is its position.
MapIds == <<1, 2>>

NumMaps ==
    Len(MapIds)

\* Player ids a record may carry in its player_id column.
PlayerIds == {1, 2}

\* Completion times (milliseconds) a record may carry.
Times == {1000, 2000, 3000}

\* ------------------------------------------------------ program constants
\* record[3] / 1000.0
MsPerSec == 1000
\* math.log10(1000 * (rn * rn))
BaseFactor == 1000
\* math.log10
LogBase == 10
\* ... ** 3
RankExponent == 3

\* ------------------------------------------------- fixed-point parameters
\* Number of binary fractional digits of the fixed-point logarithm.
LogFracBits == 6
\* Number of significant bits of a float holding a score.
FloatBits == 8
\* Scale of the mantissa the logarithm squares: 3 decimal digits.
MantScale ==
    LogBase * LogBase * LogBase

\* ------------------------------------------------------------- rationals
RECURSIVE Gcd(_, _)
Gcd(a, b) ==
    IF b = 0 THEN a ELSE Gcd(b, a % b)

Abs(x) ==
    IF x < 0 THEN -x ELSE x

\* The rational n/d (d > 0) in lowest terms.
Rat(n, d) ==
    LET g == Gcd(Abs(n), d) IN <<n \div g, d \div g>>

RatOfInt(n) ==
    <<n, 1>>

RatLess(a, b) ==
    a[1] * b[2] < b[1] * a[2]

RatAdd(a, b) ==
    Rat(a[1] * b[2] + b[1] * a[2], a[2] * b[2])

RatSub(a, b) ==
    Rat(a[1] * b[2] - b[1] * a[2], a[2] * b[2])

RatMul(a, b) ==
    Rat(a[1] * b[1], a[2] * b[2])

\* Python's a / n for an int n: ZeroDivisionError is raised by the caller.
RatDivInt(a, n) ==
    Rat(a[1], a[2] * n)

\* Python's max(a, b): b only when b > a.
PyMax(a, b) ==
    IF RatLess(a, b) THEN b ELSE a

\* Python's min(a, b): b only when b < a.
PyMin(a, b) ==
    IF RatLess(b, a) THEN b ELSE a

\* ----------------------------------------------------------------- floats
RECURSIVE Pow2(_)
Pow2(n) ==
    IF n = 0 THEN 1 ELSE 2 * Pow2(n - 1)

\* The unit in the last place of a float near x >= 0: 2^(bits of x - FloatBits).
RECURSIVE Ulp(_)
Ulp(x) ==
    IF x < Pow2(FloatBits) THEN 1 ELSE 2 * Ulp(x \div 2)

\* x >= 0 rounded to the nearest float, ties to even.
FloatRound(x) ==
    LET u == Ulp(x)
        q == x \div u
        rem == x % u
    IN  IF 2 * rem > u \/ (2 * rem = u /\ q % 2 = 1)
        THEN (q + 1) * u
        ELSE q * u

\* a + b on floats
FloatAdd(a, b) ==
    FloatRound(a + b)

\* ---------------------------------------------------------- math.log10

LogScale ==
    Pow2(LogFracBits)

\* Integer part: the number of times m (scaled by MantScale) is divided by
\* LogBase until it is below LogBase, as <<exponent, mantissa>>.
RECURSIVE LogNormalize(_, _)
LogNormalize(k, m) ==
    IF m >= LogBase * MantScale
    THEN LogNormalize(k + 1, m \div LogBase)
    ELSE <<k, m>>

\* Fractional part: one binary digit per squaring of the mantissa.
RECURSIVE LogFraction(_, _, _)
LogFraction(bits, m, acc) ==
    IF bits = 0 THEN acc
    ELSE LET sq == (m * m) \div MantScale IN
         IF sq >= LogBase * MantScale
         THEN LogFraction(bits - 1, sq \div LogBase, 2 * acc + 1)
         ELSE LogFraction(bits - 1, sq, 2 * acc)

\* math.log10(x) for a rational x >= 1, in units of 1/LogScale.
Log10(x) ==
    LET nm == LogNormalize(0, (x[1] * MantScale) \div x[2]) IN
    nm[1] * LogScale + LogFraction(LogFracBits, nm[2], 0)

\* math.log10 raises ValueError ("math domain error") for x <= 0.
Log10Defined(x) ==
    x[1] > 0

\* ------------------------------------------------------------- the store
\* A row of the records table: record[1] is player_id, record[2] map_id,
\* record[3] the completion time in milliseconds.
RecordRows(m) ==
    [player_id : PlayerIds, map_id : {m}, time : Times]

\* The results "SELECT * from records WHERE map_id = m ORDER BY time" can
\* return with at most n rows: every sequence ascending by time.
RECURSIVE OrderedRecords(_, _)
OrderedRecords(m, n) ==
    IF n = 0 THEN {<<>>}
    ELSE LET shorter == OrderedRecords(m, n - 1) IN
         shorter \cup
         { Append(s, rec) : s \in {x \in shorter : Len(x) = n - 1},
                            rec \in RecordRows(m) }

IsAscending(s) ==
    \A i \in 1..(Len(s) - 1) : s[i].time <= s[i + 1].time

\* The records tables of the first k maps holding at most budget rows.
RECURSIVE RecordTables(_, _)
RecordTables(k, budget) ==
    IF k = 0 THEN {<<>>}
    ELSE UNION { { Append(tbl, s) : tbl \in RecordTables(k - 1, budget - Len(s)) } :
                 s \in {x \in OrderedRecords(k, budget) : IsAscending(x)} }

\* ----------------------------------------------------------------- state
VARIABLES
    db,                   \* the store: [players, records], a static snapshot
    pc,                   \* the statement the script is at
    error,                \* the exception that ended the run, or "none"
    players,              \* dict players: its keys
    maps,                 \* dict maps: its keys, in insertion order
    map_pos,              \* position of the iterator over maps.items()
    map_id,
    map_records,
    heap,                 \* the MapStat objects created so far
    stats,                \* reference (index in heap) of the current MapStat
    i_record,             \* number of iterations of the scoring loop done
    r, rn, t, score,
    player_stats,         \* dict, as the sequence of its items
    map_stats,            \* dict, as the sequence of its items
    sorted_player_stats,
    sorted_map_stats,
    row_pos,              \* position of the iterator of a report loop
    players_csv,          \* python_players_ladder.csv
    maps_csv              \* python_maps_ladder.csv

vars ==
    <<db, pc, error, players, maps, map_pos, map_id, map_records, heap, stats,
      i_record, r, rn, t, score, player_stats, map_stats, sorted_player_stats,
      sorted_map_stats, row_pos, players_csv, maps_csv>>

\* ------------------------------------------------------------ dataclasses
\* MapStat(): every field 0.0
MapStat ==
    [records_count |-> 0, min_record |-> RatOfInt(0), average_record |-> RatOfInt(0),
     median_record |-> RatOfInt(0), max_record |-> RatOfInt(0), score |-> 0]

\* PlayerStat(): score 0.0
PlayerStat ==
    [score |-> 0]

record_time_sec(record) ==
    Rat(record.time, MsPerSec)

\* ------------------------------------------------------------------ dicts
\* A dict is the sequence of its <<key, value>> items in insertion order.
DictKeys(d) ==
    {d[i][1] : i \in 1..Len(d)}

DictGet(d, k) ==
    d[CHOOSE i \in 1..Len(d) : d[i][1] = k][2]

\* d[k] = v: a new key is appended, an existing key keeps its position.
DictSet(d, k, v) ==
    IF k \in DictKeys(d)
    THEN [i \in 1..Len(d) |-> IF d[i][1] = k THEN <<k, v>> ELSE d[i]]
    ELSE Append(d, <<k, v>>)

\* Mutant of NewRef: stats = MapStat() runs once, before the loop over the
\* maps, and every map fills the same object.
NewRefShared(h) ==
    1

\* The reference a new object gets: objects are never freed during the run.
NewRef(h) ==
    Len(h) + 1

HeapPut(h, ref, obj) ==
    IF ref > Len(h) THEN Append(h, obj) ELSE [h EXCEPT ![ref] = obj]

\* ---------------------------------------------------------------- scoring
\* The deviation term math.log10((average-t)**2 + 1) of compute_score.
DeviationArg(tt, average) ==
    RatAdd(RatMul(RatSub(average, tt), RatSub(average, tt)), RatOfInt(1))

BaseArg(rrn) ==
    RatOfInt(BaseFactor * (rrn * rrn))

\* (rn/r) + 1, for r # 0
RankArg(rr, rrn) ==
    RatAdd(Rat(rrn, rr), RatOfInt(1))

RECURSIVE Power(_, _)
Power(x, n) ==
    IF n = 0 THEN 1 ELSE x * Power(x, n - 1)

\* The exception compute_score raises, or "none".
compute_score_error(rr, rrn, tt, average) ==
    IF ~Log10Defined(BaseArg(rrn)) THEN "ValueError"
    ELSE IF ~Log10Defined(DeviationArg(tt, average)) THEN "ValueError"
    ELSE IF rr = 0 THEN "ZeroDivisionError"
    ELSE IF ~Log10Defined(RankArg(rr, rrn)) THEN "ValueError"
    ELSE "none"

\* The product, in units of 1/LogScale^2, rounded to a float.
compute_score(rr, rrn, tt, average) ==
    FloatRound(((Log10(BaseArg(rrn)) + Log10(DeviationArg(tt, average)))
        * Power(Log10(RankArg(rr, rrn)), RankExponent)) \div (LogScale * LogScale))

\* ------------------------------------------------------- per-map statistics
\* The fold "for record in map_records" over records[i..], on the MapStat st
\* whose average_record accumulates the sum.
RECURSIVE FoldRecords(_, _, _)
FoldRecords(records, i, st) ==
    IF i > Len(records) THEN st
    ELSE FoldRecords(records, i + 1,
            [st EXCEPT
                !.min_record = PyMin(st.min_record, record_time_sec(records[i])),
                !.max_record = PyMax(st.max_record, record_time_sec(records[i])),
                !.average_record = RatAdd(st.average_record, record_time_sec(records[i]))])

\* Mutant of MedianIndex: the lower of the two central records.
MedianIndexLower(n) ==
    (n - 1) \div 2

\* Index of the record whose time is the median: len(map_records)//2, 0-based.
MedianIndex(n) ==
    n \div 2

\* Mutant of MapStatOf: the division of line 65 is missing, average_record
\* stays the sum of the times.
MapStatOfWithoutDivision(records) ==
    LET first == [MapStat EXCEPT
                     !.min_record = record_time_sec(records[1]),
                     !.max_record = record_time_sec(records[1]),
                     !.records_count = Len(records)]
        folded == FoldRecords(records, 1, first)
    IN  [folded EXCEPT
            !.median_record = record_time_sec(records[(Len(records) \div 2) + 1])]

\* The MapStat after the statistics of a non-empty map_records are computed.
MapStatOf(records) ==
    LET first == [MapStat EXCEPT
                     !.min_record = record_time_sec(records[1]),
                     !.max_record = record_time_sec(records[1]),
                     !.records_count = Len(records)]
        folded == FoldRecords(records, 1, first)
    IN  [folded EXCEPT
            !.average_record = RatDivInt(folded.average_record, folded.records_count),
            !.median_record = record_time_sec(records[MedianIndex(Len(records)) + 1])]

\* ------------------------------------------------------------------- sort
\* StatTupleKey on an item of player_stats: elem[1].score
PlayerTupleKey(elem) ==
    elem[2].score

\* StatTupleKey on an item of map_stats, whose value is a reference
MapTupleKey(elem, h) ==
    h[elem[2]].score

\* Mutant of InsertDescending: reverse=True is missing, the order ascends.
InsertAscending(sorted, e, keys, k) ==
    LET before == {i \in 1..Len(sorted) : keys[i] <= k}
        n == Cardinality(before)
    IN  <<SubSeq(sorted, 1, n) \o <<e>> \o SubSeq(sorted, n + 1, Len(sorted)),
          SubSeq(keys, 1, n) \o <<k>> \o SubSeq(keys, n + 1, Len(keys))>>

\* Mutant of InsertDescending: an unstable descending sort, which puts an
\* item before the items of the same key.
InsertDescendingUnstable(sorted, e, keys, k) ==
    LET before == {i \in 1..Len(sorted) : keys[i] > k}
        n == Cardinality(before)
    IN  <<SubSeq(sorted, 1, n) \o <<e>> \o SubSeq(sorted, n + 1, Len(sorted)),
          SubSeq(keys, 1, n) \o <<k>> \o SubSeq(keys, n + 1, Len(keys))>>

\* e goes behind every item whose key is at least its own: list.sort with
\* reverse=True orders by descending key and keeps equal keys in their order.
InsertDescending(sorted, e, keys, k) ==
    LET before == {i \in 1..Len(sorted) : keys[i] >= k}
        n == Cardinality(before)
    IN  <<SubSeq(sorted, 1, n) \o <<e>> \o SubSeq(sorted, n + 1, Len(sorted)),
          SubSeq(keys, 1, n) \o <<k>> \o SubSeq(keys, n + 1, Len(keys))>>

\* items.sort(key=..., reverse=True), keys[i] being the key of items[i];
\* the result is <<sorted items, their keys>>.
RECURSIVE SortDescending(_, _)
SortDescending(items, keys) ==
    IF items = <<>> THEN <<(<<>>), (<<>>)>>
    ELSE LET n == Len(items)
             rest == SortDescending(SubSeq(items, 1, n - 1), SubSeq(keys, 1, n - 1))
         IN  InsertDescending(rest[1], items[n], rest[2], keys[n])

\* ---------------------------------------------------------------- reports
\* A report file: absent, open (being written), partial (closed by an
\* exception) or complete (closed at the end of its with block).
NoFile ==
    [status |-> "absent", header |-> FALSE, rows |-> <<>>]

Fail(exception) ==
    /\ pc' = "failed"
    /\ error' = exception

\* ------------------------------------------------------------------- Init
\* The players tables: every player a record may name, or all but one.
PlayerTables ==
    {PlayerIds} \cup {PlayerIds \ {p} : p \in PlayerIds}

\* The script has connected; the store holds any players table and any
\* records tables (each map's rows come back ascending by time).
Init ==
    /\ db \in { [players |-> ps, records |-> tbl] :
                  ps \in PlayerTables,
                  tbl \in RecordTables(NumMaps, MaxRecords) }
    /\ pc = "fetch_players"
    /\ error = "none"
    /\ players = {}
    /\ maps = <<>>
    /\ map_pos = 0
    /\ map_id = 0
    /\ map_records = <<>>
    /\ heap = <<>>
    /\ stats = 0
    /\ i_record = 0
    /\ r = 0
    /\ rn = 0
    /\ t = RatOfInt(0)
    /\ score = 0
    /\ player_stats = <<>>
    /\ map_stats = <<>>
    /\ sorted_player_stats = <<>>
    /\ sorted_map_stats = <<>>
    /\ row_pos = 0
    /\ players_csv = NoFile
    /\ maps_csv = NoFile

\* ------------------------------------------------------------ data access
\* players = dict(zip(player_ids, cursor.fetchall()))
FetchPlayers ==
    /\ pc = "fetch_players"
    /\ players' = db.players
    /\ pc' = "fetch_maps"
    /\ UNCHANGED <<db, error, maps, map_pos, map_id, map_records, heap, stats,
                   i_record, r, rn, t, score, player_stats, map_stats,
                   sorted_player_stats, sorted_map_stats, row_pos, players_csv,
                   maps_csv>>

\* maps = dict(zip(map_ids, cursor.fetchall())); both stats dicts start empty
FetchMaps ==
    /\ pc = "fetch_maps"
    /\ maps' = MapIds
    /\ map_stats' = <<>>
    /\ player_stats' = <<>>
    /\ map_pos' = 0
    /\ pc' = "next_map"
    /\ UNCHANGED <<db, error, players, map_id, map_records, heap, stats, i_record,
                   r, rn, t, score, sorted_player_stats, sorted_map_stats, row_pos,
                   players_csv, maps_csv>>

\* cursor.execute raises: the exception is not caught anywhere.
QueryFails ==
    /\ \/ pc \in {"fetch_players", "fetch_maps"}
       \/ pc = "next_map" /\ map_pos < Len(maps)
    /\ Fail("DatabaseError")
    /\ UNCHANGED <<db, players, maps, map_pos, map_id, map_records, heap, stats,
                   i_record, r, rn, t, score, player_stats, map_stats,
                   sorted_player_stats, sorted_map_stats, row_pos, players_csv,
                   maps_csv>>

\* Mutant of SkipMap: a map with a single record is skipped too.
SkipMapWithOneRecord(records) ==
    Len(records) <= 1

\* if (len(map_records) == 0): continue
SkipMap(records) ==
    Len(records) = 0

\* One step of "for map_id, map in maps.items()": the query and the skip.
FetchRecords ==
    /\ pc = "next_map"
    /\ map_pos < Len(maps)
    /\ map_pos' = map_pos + 1
    /\ map_id' = maps[map_pos + 1]
    /\ map_records' = db.records[maps[map_pos + 1]]
    /\ pc' = IF SkipMap(db.records[maps[map_pos + 1]]) THEN "next_map"
             ELSE "compute_stats"
    /\ UNCHANGED <<db, error, players, maps, heap, stats, i_record, r, rn, t, score,
                   player_stats, map_stats, sorted_player_stats, sorted_map_stats,
                   row_pos, players_csv, maps_csv>>

\* The loop over maps.items() is exhausted.
MapsExhausted ==
    /\ pc = "next_map"
    /\ map_pos = Len(maps)
    /\ pc' = "sort"
    /\ UNCHANGED <<db, error, players, maps, map_pos, map_id, map_records, heap,
                   stats, i_record, r, rn, t, score, player_stats, map_stats,
                   sorted_player_stats, sorted_map_stats, row_pos, players_csv,
                   maps_csv>>

\* --------------------------------------------------------- scoring engine
\* stats = MapStat() and the statistics of map_records; map_records[0]
\* raises IndexError on an empty list.
ComputeStats ==
    /\ pc = "compute_stats"
    /\ IF Len(map_records) = 0
       THEN /\ Fail("IndexError")
            /\ UNCHANGED <<stats, heap, i_record>>
       ELSE /\ stats' = NewRef(heap)
            /\ heap' = HeapPut(heap, NewRef(heap), MapStatOf(map_records))
            /\ i_record' = 0
            /\ pc' = "score_record"
            /\ error' = error
    /\ UNCHANGED <<db, players, maps, map_pos, map_id, map_records, r, rn, t, score,
                   player_stats, map_stats, sorted_player_stats, sorted_map_stats,
                   row_pos, players_csv, maps_csv>>

\* Mutant of Rank: the 0-based index is the rank.
RankZeroBased(i) ==
    i

\* r = i_record + 1
Rank(i) ==
    i + 1

\* Mutant of ClampedTime: min in place of max.
ClampedTimeMin(time, average) ==
    PyMin(time, average)

\* t = max(record_time_sec(record), stats.average_record)
ClampedTime(time, average) ==
    PyMax(time, average)

\* Mutant of AddPlayerScore: the membership test is missing, every record
\* starts its player's PlayerStat anew.
AddPlayerScoreAnew(d, player_id, sc) ==
    DictSet(d, player_id, [PlayerStat EXCEPT !.score = FloatAdd(@, sc)])

\* if record[1] not in player_stats: player_stats[record[1]] = PlayerStat()
\* player_stats[record[1]].score += score
AddPlayerScore(d, player_id, sc) ==
    LET known == IF player_id \in DictKeys(d) THEN d
                 ELSE DictSet(d, player_id, PlayerStat)
    IN  DictSet(known, player_id,
                [DictGet(known, player_id) EXCEPT !.score = FloatAdd(@, sc)])

\* stats.score += score
AddMapScore(st, sc) ==
    [st EXCEPT !.score = FloatAdd(@, sc)]

\* One iteration of "for i_record in range(len(map_records))".
ScoreRecord ==
    /\ pc = "score_record"
    /\ i_record < Len(map_records)
    /\ LET record == map_records[i_record + 1]
           st == heap[stats]
           rr == Rank(i_record)
           tt == ClampedTime(record_time_sec(record), st.average_record)
           exc == compute_score_error(rr, st.records_count, tt, st.average_record)
       IN  /\ r' = rr
           /\ rn' = st.records_count
           /\ t' = tt
           /\ IF exc # "none"
              THEN /\ Fail(exc)
                   /\ UNCHANGED <<score, heap, player_stats, i_record>>
              ELSE LET sc == compute_score(rr, st.records_count, tt, st.average_record)
                   IN  /\ score' = sc
                       /\ heap' = [heap EXCEPT ![stats] = AddMapScore(st, sc)]
                       /\ player_stats' = AddPlayerScore(player_stats, record.player_id, sc)
                       /\ i_record' = i_record + 1
                       /\ pc' = IF i_record + 1 < Len(map_records)
                                THEN "score_record" ELSE "store_stats"
                       /\ error' = error
    /\ UNCHANGED <<db, players, maps, map_pos, map_id, map_records, stats, map_stats,
                   sorted_player_stats, sorted_map_stats, row_pos, players_csv,
                   maps_csv>>

\* map_stats[map_id] = stats
StoreMapStat ==
    /\ pc = "store_stats"
    /\ map_stats' = DictSet(map_stats, map_id, stats)
    /\ pc' = "next_map"
    /\ UNCHANGED <<db, error, players, maps, map_pos, map_id, map_records, heap,
                   stats, i_record, r, rn, t, score, player_stats,
                   sorted_player_stats, sorted_map_stats, row_pos, players_csv,
                   maps_csv>>

\* --------------------------------------------------- ranking and reports
\* sorted_player_stats = list(player_stats.items()), sorted by descending
\* score
SortedPlayerStats(d) ==
    SortDescending(d, [i \in 1..Len(d) |-> PlayerTupleKey(d[i])])[1]

\* sorted_map_stats = list(map_stats.items()), sorted by descending score
SortedMapStats(d, h) ==
    SortDescending(d, [i \in 1..Len(d) |-> MapTupleKey(d[i], h)])[1]

SortStats ==
    /\ pc = "sort"
    /\ sorted_player_stats' = SortedPlayerStats(player_stats)
    /\ sorted_map_stats' = SortedMapStats(map_stats, heap)
    /\ pc' = "open_players"
    /\ UNCHANGED <<db, error, players, maps, map_pos, map_id, map_records, heap,
                   stats, i_record, r, rn, t, score, player_stats, map_stats,
                   row_pos, players_csv, maps_csv>>

\* open('python_players_ladder.csv', 'w') and the header line
OpenPlayerReport ==
    /\ pc = "open_players"
    /\ players_csv' = [status |-> "open", header |-> TRUE, rows |-> <<>>]
    /\ row_pos' = 0
    /\ pc' = "write_player_row"
    /\ UNCHANGED <<db, error, players, maps, map_pos, map_id, map_records, heap,
                   stats, i_record, r, rn, t, score, player_stats, map_stats,
                   sorted_player_stats, sorted_map_stats, maps_csv>>

\* The row f'{player[0]},{player[1]},{player[2]},{player_stats.score}': login
\* and name are columns of the players row the id selects.
PlayerRow(player_id, stat) ==
    [id |-> player_id, score |-> stat.score]

\* One iteration of "for player_id, player_stats in sorted_player_stats":
\* the loop rebinds player_stats; players[player_id] raises KeyError for an
\* id the players table does not hold, and the with block closes the file.
WritePlayerRow ==
    /\ pc = "write_player_row"
    /\ row_pos < Len(sorted_player_stats)
    /\ LET elem == sorted_player_stats[row_pos + 1] IN
       /\ player_stats' = elem[2]
       /\ row_pos' = row_pos + 1
       /\ IF elem[1] \notin players
          THEN /\ Fail("KeyError")
               /\ players_csv' = [players_csv EXCEPT !.status = "partial"]
          ELSE /\ players_csv' = [players_csv EXCEPT
                                    !.rows = Append(@, PlayerRow(elem[1], elem[2]))]
               /\ UNCHANGED <<pc, error>>
    /\ UNCHANGED <<db, players, maps, map_pos, map_id, map_records, heap, stats,
                   i_record, r, rn, t, score, map_stats, sorted_player_stats,
                   sorted_map_stats, maps_csv>>

\* The end of the first with block.
ClosePlayerReport ==
    /\ pc = "write_player_row"
    /\ row_pos = Len(sorted_player_stats)
    /\ players_csv' = [players_csv EXCEPT !.status = "complete"]
    /\ pc' = "open_maps"
    /\ UNCHANGED <<db, error, players, maps, map_pos, map_id, map_records, heap,
                   stats, i_record, r, rn, t, score, player_stats, map_stats,
                   sorted_player_stats, sorted_map_stats, row_pos, maps_csv>>

\* open('python_maps_ladder.csv', 'w') and the header line
OpenMapReport ==
    /\ pc = "open_maps"
    /\ maps_csv' = [status |-> "open", header |-> TRUE, rows |-> <<>>]
    /\ row_pos' = 0
    /\ pc' = "write_map_row"
    /\ UNCHANGED <<db, error, players, maps, map_pos, map_id, map_records, heap,
                   stats, i_record, r, rn, t, score, player_stats, map_stats,
                   sorted_player_stats, sorted_map_stats, players_csv>>

\* The row of a map: average = map_stats.score / map_stats.records_count
\* (the quotient of two fixed-point numbers is rounded down).
MapRow(id, st) ==
    [id |-> id, score |-> st.score, average_score |-> st.score \div st.records_count,
     min_record |-> st.min_record, max_record |-> st.max_record,
     average_record |-> st.average_record, median_record |-> st.median_record,
     records_count |-> st.records_count]

\* The exception an iteration of the map report loop raises, or "none".
MapRowError(id, st) ==
    IF id \notin DictKeys([i \in 1..Len(maps) |-> <<maps[i], i>>]) THEN "KeyError"
    ELSE IF st.records_count = 0 THEN "ZeroDivisionError"
    ELSE "none"

\* One iteration of "for map_id, map_stats in sorted_map_stats": the loop
\* rebinds map_id and map_stats.
WriteMapRow ==
    /\ pc = "write_map_row"
    /\ row_pos < Len(sorted_map_stats)
    /\ LET elem == sorted_map_stats[row_pos + 1] IN
       /\ map_id' = elem[1]
       /\ map_stats' = elem[2]
       /\ row_pos' = row_pos + 1
       /\ IF MapRowError(elem[1], heap[elem[2]]) # "none"
          THEN /\ Fail(MapRowError(elem[1], heap[elem[2]]))
               /\ maps_csv' = [maps_csv EXCEPT !.status = "partial"]
          ELSE /\ maps_csv' = [maps_csv EXCEPT
                                 !.rows = Append(@, MapRow(elem[1], heap[elem[2]]))]
               /\ UNCHANGED <<pc, error>>
    /\ UNCHANGED <<db, players, maps, map_pos, map_records, heap, stats, i_record,
                   r, rn, t, score, player_stats, sorted_player_stats,
                   sorted_map_stats, players_csv>>

\* The end of the second with block, and of the script.
CloseMapReport ==
    /\ pc = "write_map_row"
    /\ row_pos = Len(sorted_map_stats)
    /\ maps_csv' = [maps_csv EXCEPT !.status = "complete"]
    /\ pc' = "done"
    /\ UNCHANGED <<db, error, players, maps, map_pos, map_id, map_records, heap,
                   stats, i_record, r, rn, t, score, player_stats, map_stats,
                   sorted_player_stats, sorted_map_stats, row_pos, players_csv>>

\* open() raises and leaves no file (created = FALSE), or a write (or the
\* flush on close) raises and the with block closes the file as it is.
WriteFails ==
    /\ \E created \in BOOLEAN :
        \/ /\ pc = "open_players"
           /\ players_csv' = IF created THEN [NoFile EXCEPT !.status = "partial"]
                             ELSE NoFile
           /\ maps_csv' = maps_csv
        \/ /\ pc = "write_player_row"
           /\ created
           /\ players_csv' = [players_csv EXCEPT !.status = "partial"]
           /\ maps_csv' = maps_csv
        \/ /\ pc = "open_maps"
           /\ maps_csv' = IF created THEN [NoFile EXCEPT !.status = "partial"]
                          ELSE NoFile
           /\ players_csv' = players_csv
        \/ /\ pc = "write_map_row"
           /\ created
           /\ maps_csv' = [maps_csv EXCEPT !.status = "partial"]
           /\ players_csv' = players_csv
    /\ Fail("OSError")
    /\ UNCHANGED <<db, players, maps, map_pos, map_id, map_records, heap, stats,
                   i_record, r, rn, t, score, player_stats, map_stats,
                   sorted_player_stats, sorted_map_stats, row_pos>>

\* ------------------------------------------------------------------- Next
Next ==
    \/ FetchPlayers
    \/ FetchMaps
    \/ QueryFails
    \/ FetchRecords
    \/ MapsExhausted
    \/ ComputeStats
    \/ ScoreRecord
    \/ StoreMapStat
    \/ SortStats
    \/ OpenPlayerReport
    \/ WritePlayerRow
    \/ ClosePlayerReport
    \/ OpenMapReport
    \/ WriteMapRow
    \/ CloseMapReport
    \/ WriteFails

Spec ==
    Init /\ [][Next]_vars

\* =============================================================== properties
\* The items (key, value) of map_stats: the dict while the maps are
\* processed, the sorted list of its items once it exists (the report loop
\* rebinds the name map_stats).
MapItems ==
    IF sorted_map_stats # <<>> THEN sorted_map_stats ELSE map_stats

\* The items of player_stats, likewise.
PlayerItems ==
    IF sorted_player_stats # <<>> THEN sorted_player_stats ELSE player_stats

Range(seq) ==
    {seq[i] : i \in 1..Len(seq)}

\* The map whose scoring loop is running or has just ended, not yet stored.
MapInProgress ==
    pc \in {"score_record", "store_stats"}

\* The MapStat of every map processed so far, as <<map_id, MapStat>>.
ComputedStats ==
    {<<item[1], heap[item[2]]>> : item \in Range(MapItems)}
        \cup (IF MapInProgress THEN {<<map_id, heap[stats]>>} ELSE {})

RECURSIVE SumOfTimes(_, _)
SumOfTimes(records, n) ==
    IF n = 0 THEN 0 ELSE records[n].time + SumOfTimes(records, n - 1)

RECURSIVE SumOver(_, _)
SumOver(f, S) ==
    IF S = {} THEN 0
    ELSE LET x == CHOOSE y \in S : TRUE IN f[x] + SumOver(f, S \ {x})

MapsWithRecords ==
    {m \in 1..NumMaps : db.records[m] # <<>>}

PlayersWithRecords ==
    {rec.player_id : rec \in UNION {Range(db.records[m]) : m \in 1..NumMaps}}

ProcessingOver ==
    pc \in {"sort", "open_players", "write_player_row", "open_maps",
            "write_map_row", "done"}

\* C1: the MapStat computed for a map whose fetched records are
\* [t1 <= ... <= tn], n >= 1, has records_count = n, min_record = t1,
\* max_record = tn, average_record = sum(ti)/n and median_record = t[n//2]
\* (0-indexed), from the moment it is computed to the end of the run.
C1_MapStatistics ==
    \A cs \in ComputedStats :
        LET recs == db.records[cs[1]]
            n == Len(recs)
            st == cs[2]
        IN  /\ n >= 1
            /\ st.records_count = n
            /\ st.min_record = Rat(recs[1].time, MsPerSec)
            /\ st.max_record = Rat(recs[n].time, MsPerSec)
            /\ st.average_record = Rat(SumOfTimes(recs, n), MsPerSec * n)
            /\ st.median_record = Rat(recs[(n \div 2) + 1].time, MsPerSec)

\* A stored MapStat of a map with three records of three different times.
C1_Witness ==
    \E item \in Range(MapItems) :
        LET recs == db.records[item[1]] IN
        /\ Len(recs) = 3
        /\ recs[1].time < recs[2].time
        /\ recs[2].time < recs[3].time

\* sum(scores) as Python computes it: float additions from left to right.
RECURSIVE FloatSum(_, _)
FloatSum(scores, n) ==
    IF n = 0 THEN 0 ELSE FloatAdd(FloatSum(scores, n - 1), scores[n])

\* Sum of the score fields of the MapStats in map_stats plus the running
\* score of the map in progress.
MapTotal ==
    LET stored == FloatSum([i \in 1..Len(MapItems) |-> heap[MapItems[i][2]].score],
                           Len(MapItems))
    IN  IF MapInProgress THEN FloatAdd(stored, heap[stats].score) ELSE stored

\* Sum of the score fields of the PlayerStats in player_stats.
PlayerTotal ==
    FloatSum([i \in 1..Len(PlayerItems) |-> PlayerItems[i][2].score],
             Len(PlayerItems))

\* The number of records scored so far.
ScoredRecords ==
    LET ids == {item[1] : item \in Range(MapItems)}
    IN  SumOver([m \in ids |-> Len(db.records[m])], ids)
            + (IF MapInProgress THEN i_record ELSE 0)

LargerTotal ==
    IF MapTotal > PlayerTotal THEN MapTotal ELSE PlayerTotal

\* C2, as claimed: at every point of the run the sum of the scores of the
\* MapStats (with the map in progress) equals the sum of the scores of the
\* PlayerStats.
C2_TotalsEqual ==
    MapTotal = PlayerTotal

\* C2, amended: the two sums add the same per-record scores, each once, in
\* different orders, so they agree up to the rounding of the float additions:
\* by at most two units in the last place of the larger sum per record
\* scored.
C2_TotalsEqualUpToRounding ==
    Abs(MapTotal - PlayerTotal) <= 2 * ScoredRecords * Ulp(LargerTotal)

\* The run is over, two players have a total, and the two sums differ (by
\* rounding alone).
C2_Witness ==
    /\ pc = "done"
    /\ Len(sorted_player_stats) = 2
    /\ MapTotal # PlayerTotal

\* C3: a map without records gets no MapStat and adds to no PlayerStat; once
\* the maps are processed the MapStats are those of the maps with records and
\* the PlayerStats those of the players with a record; a finished run has
\* written one row per such map and one row per such player, and no other.
C3_ReportMembership ==
    /\ {item[1] : item \in Range(MapItems)} \subseteq MapsWithRecords
    /\ {item[1] : item \in Range(PlayerItems)} \subseteq PlayersWithRecords
    /\ ProcessingOver =>
          /\ {item[1] : item \in Range(MapItems)} = MapsWithRecords
          /\ {item[1] : item \in Range(PlayerItems)} = PlayersWithRecords
    /\ pc = "done" =>
          /\ {row.id : row \in Range(maps_csv.rows)} = MapsWithRecords
          /\ Len(maps_csv.rows) = Cardinality(MapsWithRecords)
          /\ {row.id : row \in Range(players_csv.rows)} = PlayersWithRecords
          /\ Len(players_csv.rows) = Cardinality(PlayersWithRecords)

\* A finished run over a store with a map without records, a map with
\* records and a player without records.
C3_Witness ==
    /\ pc = "done"
    /\ MapsWithRecords # {}
    /\ MapsWithRecords # 1..NumMaps
    /\ PlayersWithRecords # {}
    /\ db.players \ PlayersWithRecords # {}

Descending(rows) ==
    \A i, j \in 1..Len(rows) : i < j => rows[i].score >= rows[j].score

\* C4: in both reports an earlier row's score is at least a later row's.
C4_RowsDescending ==
    /\ Descending(players_csv.rows)
    /\ Descending(maps_csv.rows)

\* Both reports are complete and each holds two rows of different scores.
C4_Witness ==
    /\ pc = "done"
    /\ \E i, j \in 1..Len(players_csv.rows) :
           players_csv.rows[i].score # players_csv.rows[j].score
    /\ \E i, j \in 1..Len(maps_csv.rows) :
           maps_csv.rows[i].score # maps_csv.rows[j].score

\* C5, as claimed: a finished run has written both reports in full, and a
\* failed run leaves no report file, complete or partial.
C5_NoPartialOutput ==
    /\ pc = "done" =>
          players_csv.status = "complete" /\ maps_csv.status = "complete"
    /\ pc = "failed" =>
          players_csv.status = "absent" /\ maps_csv.status = "absent"

\* C6, as claimed: for an even number of records median_record is the lower
\* of the two central times, for an odd number the middle time.
C6_LowerMedian ==
    \A cs \in ComputedStats :
        LET recs == db.records[cs[1]]
            n == Len(recs)
        IN  cs[2].median_record =
                Rat(recs[IF n % 2 = 0 THEN n \div 2 ELSE (n + 1) \div 2].time, MsPerSec)

\* C6, amended: for an even number of records median_record is the upper of
\* the two central times (never their mean when they differ), for an odd
\* number the middle time.
C6_UpperMedian ==
    \A cs \in ComputedStats :
        LET recs == db.records[cs[1]]
            n == Len(recs)
            lower == Rat(recs[n \div 2].time, MsPerSec)
            upper == Rat(recs[(n \div 2) + 1].time, MsPerSec)
        IN  IF n % 2 = 0
            THEN /\ cs[2].median_record = upper
                 /\ lower # upper =>
                       cs[2].median_record # RatDivInt(RatAdd(lower, upper), 2)
            ELSE cs[2].median_record = Rat(recs[(n + 1) \div 2].time, MsPerSec)

\* A stored MapStat of a map with an even number of records whose two
\* central times differ.
C6_Witness ==
    \E item \in Range(MapItems) :
        LET recs == db.records[item[1]]
            n == Len(recs)
        IN  /\ n >= 2
            /\ n % 2 = 0
            /\ recs[n \div 2].time # recs[(n \div 2) + 1].time

\* The scoring loop has scored map_records[i_record] with r, rn, t, score.
JustScored ==
    MapInProgress /\ i_record >= 1

\* C7: a record whose time is at most its map's average_record is scored with
\* t = average_record, and its deviation term is 0; the deviation term is not
\* 0 only for a record slower than the average.
C7_ClampedDeviation ==
    JustScored =>
        LET time == Rat(map_records[i_record].time, MsPerSec)
            average == heap[stats].average_record
            deviation == Log10(DeviationArg(t, average))
        IN  /\ ~RatLess(average, time) =>
                  /\ t = average
                  /\ RatSub(average, t) = RatOfInt(0)
                  /\ deviation = 0
            /\ deviation # 0 => RatLess(average, time)

\* A record faster than the average of its map has been scored, and so has a
\* slower one with a deviation term that is not 0.
C7_Witness ==
    /\ JustScored
    /\ i_record >= 2
    /\ RatLess(Rat(map_records[1].time, MsPerSec), heap[stats].average_record)
    /\ Log10(DeviationArg(t, heap[stats].average_record)) # 0

\* C8: at every call of compute_score 1 <= r <= rn, r is the position of the
\* record and rn the number of records of the map; every divisor
\* (records_count of a MapStat, r) is at least 1 and every argument of log10
\* is positive, so no ZeroDivisionError, ValueError or IndexError ends a run.
C8_RanksAndDivisors ==
    /\ JustScored =>
          /\ r = i_record
          /\ 1 <= r
          /\ r <= rn
          /\ rn = Len(map_records)
          /\ rn = Len(db.records[map_id])
          /\ BaseArg(rn)[1] > 0
          /\ DeviationArg(t, heap[stats].average_record)[1] > 0
          /\ RankArg(r, rn)[1] > 0
    /\ \A ref \in 1..Len(heap) : heap[ref].records_count >= 1
    /\ \A row \in Range(maps_csv.rows) : row.records_count >= 1
    /\ error \notin {"ZeroDivisionError", "ValueError", "IndexError"}

\* The last of several records of a map has been scored: r = rn > 1.
C8_Witness ==
    /\ JustScored
    /\ r = rn
    /\ rn > 1

\* The MapStat objects stored in map_stats.
FinalizedRefs ==
    {item[2] : item \in Range(MapItems)}

\* C9: maps are processed one at a time (every MapStat but the one in
\* progress is stored), sorting begins only when every map has been processed,
\* and once a MapStat is stored under its map_id no field of it changes in any
\* later step: not while later maps are processed, nor while the stats are
\* sorted and the reports written.
C9_StoredMapStatIsFinal ==
    /\ [][\A item \in Range(MapItems) :
              /\ item \in Range(MapItems')
              /\ heap'[item[2]] = heap[item[2]]]_vars
    /\ [](/\ \A ref \in 1..Len(heap) :
                 ref \in FinalizedRefs \/ (MapInProgress /\ ref = stats)
          /\ ProcessingOver => map_pos = Len(maps) /\ Len(maps) = NumMaps)

\* Both maps have a stored MapStat and both reports are written.
C9_Witness ==
    /\ pc = "done"
    /\ Len(sorted_map_stats) = 2
    /\ Len(maps_csv.rows) = 2

\* The records in the order the run folds them: map by map in fetch order.
RECURSIVE FoldedRecords(_)
FoldedRecords(k) ==
    IF k = 0 THEN <<>> ELSE FoldedRecords(k - 1) \o db.records[k]

\* The position at which each player's id is first encountered.
FirstSeen ==
    LET all == FoldedRecords(NumMaps) IN
    [p \in PlayersWithRecords |->
        CHOOSE i \in 1..Len(all) :
            /\ all[i].player_id = p
            /\ \A j \in 1..(i - 1) : all[j].player_id # p]

\* The position at which each map's MapStat is stored: its fetch position.
StoreOrder ==
    [m \in 1..NumMaps |-> m]

TiesKeepOrder(rows, order) ==
    \A i, j \in 1..Len(rows) :
        (i < j /\ rows[i].score = rows[j].score) => order[rows[i].id] < order[rows[j].id]

\* C10: rows of equal score are written in insertion order: players in the
\* order their ids were first encountered while the records were folded,
\* maps in the order their MapStats were stored (their fetch order).
C10_TiesKeepInsertionOrder ==
    /\ TiesKeepOrder(players_csv.rows, FirstSeen)
    /\ TiesKeepOrder(maps_csv.rows, StoreOrder)

\* Both reports are complete and each holds two rows of the same score.
C10_Witness ==
    /\ pc = "done"
    /\ Len(players_csv.rows) = 2
    /\ players_csv.rows[1].score = players_csv.rows[2].score
    /\ Len(maps_csv.rows) = 2
    /\ maps_csv.rows[1].score = maps_csv.rows[2].score

====
